---- MODULE Spec2Model ----
(***************************************************************************)
(* Thorlabs CHROLIS device adapter: the hub's status-polling thread, the   *)
(* callback slots it drives, and the get/set protocol of the state         *)
(* device's and the shutter's hardware-backed properties.                  *)
(*                                                                         *)
(* Texts handed to OnPropertyChanged are modelled as sequences of          *)
(* character codes, so that what an ostringstream writes for a long, an    *)
(* unsigned short and an unsigned char can be told apart.                  *)
(***************************************************************************)
EXTENDS Integers, Sequences, FiniteSets, TLC

\* ------------------------------------------------------------------ bounds
\* per-channel enable properties exercised: LED indices 0..MaxLedIdx
MaxLedIdx == 0
\* per-channel brightness properties exercised: LED indices 0..MaxPowerIdx
MaxPowerIdx == 0
\* brightness domain [ledMinBrightness_, ledMaxBrightness_] scaled to 0..MaxBrightness
MaxBrightness == 1
\* status codes decoded on their own: 0..MaxStatusCode
MaxStatusCode == 255

\* --------------------------------------------------------------- constants
NUM_LEDS == 6

Leds == 0 .. (NUM_LEDS - 1)
EnableLeds == 0 .. MaxLedIdx
PowerLeds == 0 .. MaxPowerIdx
Brightness == 0 .. MaxBrightness
\* LEDs the instrument switches off by itself
InterlockedLeds == {2}
\* values the host writes to the State property (it declares no limits)
StateInputs == {-1, 5, 49, 64}
\* status codes the hardware reports: nominal, interlock open, a code with
\* none of bits 0..6 set
StatusCodes == {0, 4, 128}

\* ------------------------------------------------------------------ codec
RECURSIVE EncodeFrom(_, _)
EncodeFrom(states, i) ==
    IF i = NUM_LEDS THEN 0
    ELSE (IF states[i] # 0 THEN 2 ^ i ELSE 0) + EncodeFrom(states, i + 1)

\* an encoding that shifts element i by i + 1
EncodeLEDStatesShifted(states) == (2 * EncodeFrom(states, 0)) % 256

EncodeLEDStatesInBits(states) == EncodeFrom(states, 0) % 256

DecodeLEDStatesFromBits(bits) ==
    [i \in Leds |-> IF (bits \div (2 ^ i)) % 2 # 0 THEN 1 ELSE 0]

\* ------------------------------------------------------- stream insertion
RECURSIVE Digits(_)
Digits(n) == IF n < 10 THEN <<48 + n>> ELSE Digits(n \div 10) \o <<48 + (n % 10)>>

\* os << (long | int | unsigned short): the decimal digits
StreamInt(n) == IF n < 0 THEN <<45>> \o Digits(-n) ELSE Digits(n)

\* os << (std::uint8_t): unsigned char, inserted as one character
StreamUInt8(c) == <<c>>

\* os.str().c_str() read as a C string: ends at the first NUL
RECURSIVE CStr(_)
CStr(s) == IF s = <<>> \/ Head(s) = 0 THEN <<>> ELSE <<Head(s)>> \o CStr(Tail(s))

StateName == "State"
EnableName(i) == "LED Enable State " \o ToString(i + 1)
PowerName(i) == "LED " \o ToString(i + 1) \o " Power"

Notification(name, text) == [prop |-> name, text |-> CStr(text)]

\* ------------------------------------------------------------------ state
VARIABLES
    \* Device Facade and host environment
    hwEnable,          \* enable state of each LED on the hardware
    hwBrightness,      \* brightness of each LED on the hardware
    hwShutter,         \* shutter open on the hardware
    hwStatus,          \* status code the hardware reports
    \* ChrolisStateDevice
    ledStates_,        \* last-known enable states
    ledBrightnesses_,  \* last-known brightnesses
    sdProps,           \* the properties have been created by Initialize
    \* ChrolisHub
    stateCallback_,    \* handler installed in the state slot
    shutterCallback_,  \* handler installed in the shutter slot
    slotWrite,         \* handler an unfinished SetStateCallback is assigning, or "none"
    hub,               \* "constructed" | "initialized" | "joining" | "shutdown"
    threadRunning_,
    currentDeviceStatusCode_,
    updateThread_,     \* "none" | "joinable" | "joined"
    mpc,               \* position of StatusChangedPollingThread
    tempEnableStates,  \* its local snapshot of the enable states
    pushIdx,           \* next stateCallback_ invocation of the batch, 0..6
    message,           \* its local status text
    \* scope of a behaviour
    focus,             \* the part of the adapter the host drives in this behaviour
    track,             \* the histories this behaviour records
    \* history
    iter,              \* what the current poll iteration has read and done
    last,              \* the most recent handler call and its outcome
    obs,               \* value of State and the enable properties as the host sees them
    conf,              \* per cell, the value of its latest successful hardware read or write
    fresh              \* per LED, brightness written successfully and not changed since

envVars == <<hwEnable, hwBrightness, hwShutter, hwStatus>>
devVars == <<ledStates_, ledBrightnesses_, sdProps>>
slotVars == <<stateCallback_, shutterCallback_, slotWrite>>
monVars == <<hub, threadRunning_, currentDeviceStatusCode_, updateThread_, mpc,
             tempEnableStates, pushIdx, message, iter>>
histVars == <<last, obs, conf, fresh>>
scopeVars == <<focus, track>>
vars == <<envVars, devVars, slotVars, monVars, histVars, scopeVars>>

\* ----------------------------------------------------------- Device Facade
\* what IsDeviceConnected() can answer; it is not asked without a hub
Connected(pHub) == IF pHub THEN BOOLEAN ELSE {FALSE}

\* outcomes of a hardware read: it fails when the device is not connected
ReadOutcomes(isConnected) == IF isConnected THEN {"ok", "fail"} ELSE {"fail"}

\* outcomes of a hardware write issued after IsDeviceConnected() returned true:
\* done, connection lost meanwhile, or rejected by the instrument
WriteOutcomes == {"ok", "unavail", "error"}

WriteError(w) ==
    IF w = "ok" THEN "DEVICE_OK"
    ELSE IF w = "unavail" THEN "ERR_CHROLIS_NOT_AVAIL"
    ELSE "ERR_IMPROPER_SET"

AllOff == [i \in Leds |-> 0]
NoValues == [i \in Leds |-> <<>>]
Confirm(cells) == [i \in Leds |-> <<cells[i]>>]

\* the scopes in which the host drives the brightness properties, the shutter,
\* and in which the hub runs its polling thread
PowerFoci == {"power", "power+monitor"}
ShutterFoci == {"shutter", "shutter+monitor"}
MonitorFoci == {"monitor", "power+monitor", "shutter+monitor"}
\* the brightness properties the host drives: all those exercised, or the
\* first one where the polling thread runs as well
PowerLedsIn(scope) == IF scope = "power" THEN PowerLeds ELSE {0}

\* a history is recorded only in the behaviours that track it
Rec(name, old, new) == IF name \in track THEN new ELSE old

\* the property families and histories explored together
Scopes ==
    { <<"enable", {"last", "obs"}>>, <<"enable", {"last", "conf"}>>,
      <<"power", {"last", "conf", "fresh"}>>, <<"shutter", {"last"}>>, <<"monitor", {}>>,
      <<"power+monitor", {"last", "fresh"}>>, <<"shutter+monitor", {"last"}>> }

\* a handler call: its inputs (val, and what GetParentHub() and
\* IsDeviceConnected() answered), its return code, the notifications it
\* published, the value a get handed to the property, and the numbers of
\* hardware writes and reads it attempted
Call(op, idx, val, pHub, conn, ret, pub, shown, writes, reads) ==
    [op |-> op, idx |-> idx, val |-> val, hub |-> pHub, conn |-> pHub /\ conn,
     ret |-> ret, pub |-> pub, shown |-> shown, writes |-> writes, reads |-> reads]

\* what the host sees of a property after the handler ran: the text published
\* last, else the value the property object holds
Seen(pub, held) == IF pub = <<>> THEN held ELSE pub[Len(pub)].text

\* a poll iteration: how far it got, the status code observed before and the
\* one just read, how the re-read of the enable states went and what it read,
\* the invocations made (slot and arguments), the handlers they ran, the
\* handler the latest one ran with what it published, and the text published
\* to "Device Status"
Poll(phase, prev, read, reread, states) ==
    [phase |-> phase, prev |-> prev, read |-> read, reread |-> reread,
     states |-> states, calls |-> <<>>, handlers |-> {},
     ran |-> [handler |-> "none", pub |-> <<>>], status |-> <<>>]

NoPoll == Poll("none", 0, 0, "none", <<>>)

\* the adapter once its devices are constructed
Constructed ==
    /\ hwEnable = DecodeLEDStatesFromBits(5)
    /\ hwBrightness = [i \in Leds |-> 0]
    /\ hwShutter = FALSE
    /\ hwStatus = 0
    /\ ledStates_ = AllOff
    /\ ledBrightnesses_ = [i \in Leds |-> 0]
    /\ sdProps = FALSE
    /\ stateCallback_ = "noop"
    /\ shutterCallback_ = "noop"
    /\ slotWrite = "none"
    /\ hub = "constructed"
    /\ threadRunning_ = FALSE
    /\ currentDeviceStatusCode_ = 0
    /\ updateThread_ = "none"
    /\ mpc = "idle"
    /\ tempEnableStates = AllOff
    /\ pushIdx = 0
    /\ message = ""
    /\ iter = NoPoll
    /\ last = Call("none", 0, <<>>, FALSE, FALSE, "DEVICE_OK", <<>>, <<>>, 0, 0)
    /\ obs = [state |-> <<>>, en |-> NoValues]
    /\ conf = [en |-> NoValues, br |-> NoValues]
    /\ fresh = NoValues

Init ==
    /\ \E sc \in Scopes : focus = sc[1] /\ track = sc[2]
    /\ Constructed

\* ------------------------------------------------- ChrolisStateDevice
\* a get that hands the property the value the slot held before the read
PresentedBeforeRead(before, after) == before

\* pProp->Set((long)*ledBeingControlled): a get hands the property what the
\* last-known slot holds after the hardware read was attempted into it
PresentedAfterRead(before, after) == after

\* the handler Initialize installs in the state slot
StateHandler(ledNum, state) ==
    IF ledNum = 0 THEN <<Notification(StateName, StreamInt(state))>>
    ELSE IF ledNum \in 1 .. 6
         THEN <<Notification(EnableName(ledNum - 1), StreamInt(state))>>
         ELSE <<>>

\* where the polling thread can push, the assignment SetStateCallback makes
\* is a step of its own, which a push can overlap
RacesWithPushes(scope) == scope = "monitor"

\* SetStateCallback(function) entered from Initialize or Shutdown, which found
\* the hub: the caller's thread has begun stateCallback_ = function
SetStateCallback ==
    /\ RacesWithPushes(focus)
    /\ UNCHANGED scopeVars
    /\ slotWrite = "none"
    /\ \E function \in {"state", "noop"} : slotWrite' = function
    /\ UNCHANGED <<envVars, devVars, stateCallback_, shutterCallback_, monVars, histVars>>

\* Initialize; where a push can overlap it, from the end of the assignment on
StateDeviceInitialize ==
    \E pHub \in BOOLEAN : \E conn \in Connected(pHub) :
    /\ focus \in {"enable", "monitor"} \cup PowerFoci
    /\ UNCHANGED scopeVars
    /\ slotWrite = (IF RacesWithPushes(focus) /\ pHub THEN "state" ELSE "none")
    /\ slotWrite' = "none"
    /\ IF ~pHub
       THEN /\ last' = Rec("last", last,
                           Call("Initialize", 0, <<>>, pHub, conn, "ERR_HUB_NOT_AVAILABLE",
                                <<>>, <<>>, 0, 0))
            /\ UNCHANGED <<devVars, stateCallback_, shutterCallback_, obs, conf, fresh>>
       ELSE \E r1 \in ReadOutcomes(conn), r2 \in ReadOutcomes(conn) :
            LET states == IF r1 = "ok" THEN hwEnable ELSE ledStates_
                brights == IF r2 = "ok" THEN hwBrightness ELSE ledBrightnesses_
                tmpLedState == IF conn THEN EncodeLEDStatesInBits(states) ELSE 0
                reads == IF conn THEN 2 ELSE 0
            IN /\ stateCallback_' = "state"
               /\ UNCHANGED shutterCallback_
               /\ ledStates_' = states
               /\ ledBrightnesses_' = brights
               /\ conf' = Rec("conf", conf,
                              [en |-> IF r1 = "ok" THEN Confirm(hwEnable) ELSE conf.en,
                               br |-> IF r2 = "ok" THEN Confirm(hwBrightness) ELSE conf.br])
               /\ UNCHANGED fresh
               /\ IF sdProps
                  THEN /\ last' = Rec("last", last,
                                      Call("Initialize", 0, <<>>, pHub, conn,
                                           "DEVICE_DUPLICATE_PROPERTY", <<>>, <<>>, 0, reads))
                       /\ UNCHANGED <<sdProps, obs>>
                  ELSE /\ sdProps' = TRUE
                       /\ obs' = Rec("obs", obs,
                                     [state |-> StreamInt(tmpLedState),
                                      en |-> [i \in Leds |-> StreamInt(states[i])]])
                       /\ last' = Rec("last", last,
                                      Call("Initialize", 0, <<>>, pHub, conn, "DEVICE_OK",
                                           <<>>, <<>>, 0, reads))
    /\ UNCHANGED <<envVars, monVars>>

\* Shutdown, from the end of the assignment on
StateDeviceShutdown ==
    \E pHub \in BOOLEAN :
    /\ focus \in {"monitor"}
    /\ UNCHANGED scopeVars
    /\ slotWrite = (IF pHub THEN "noop" ELSE "none")
    /\ slotWrite' = "none"
    /\ IF pHub THEN stateCallback_' = "noop" ELSE UNCHANGED stateCallback_
    /\ last' = Rec("last", last,
                   Call("Shutdown", 0, <<>>, pHub, FALSE, "DEVICE_OK", <<>>, <<>>, 0, 0))
    /\ UNCHANGED <<envVars, devVars, shutterCallback_, monVars, obs, conf, fresh>>

\* OnState, eAct == MM::BeforeGet
OnStateBeforeGet ==
    \E pHub \in BOOLEAN : \E conn \in Connected(pHub) :
    /\ focus \in {"enable"}
    /\ UNCHANGED scopeVars
    /\ sdProps
    /\ IF ~pHub
       THEN /\ last' = Call("GetState", 0, <<>>, pHub, conn, "ERR_HUB_NOT_AVAILABLE", <<>>, <<>>, 0, 0)
            /\ UNCHANGED <<ledStates_, obs, conf>>
       ELSE \E r \in ReadOutcomes(conn) :
            LET states == IF r = "ok" THEN hwEnable ELSE ledStates_
                shown == PresentedAfterRead(EncodeLEDStatesInBits(ledStates_),
                                            EncodeLEDStatesInBits(states))
            IN /\ ledStates_' = states
               /\ conf' = Rec("conf", conf,
                      [conf EXCEPT !.en = IF r = "ok" THEN Confirm(hwEnable) ELSE @])
               /\ obs' = Rec("obs", obs,
                      [obs EXCEPT !.state = StreamInt(shown)])
               /\ last' = Call("GetState", 0, <<>>, pHub, conn, "DEVICE_OK", <<>>, <<shown>>, 0, 1)
    /\ UNCHANGED <<envVars, ledBrightnesses_, sdProps, slotVars, monVars, fresh>>

\* OnState, eAct == MM::AfterSet, with the value val the host put in the property
OnStateAfterSet ==
    \E pHub \in BOOLEAN : \E conn \in Connected(pHub) :
    /\ focus \in {"enable"}
    /\ UNCHANGED scopeVars
    /\ sdProps
    /\ \E val \in StateInputs :
       LET currentLEDState == EncodeLEDStatesInBits(ledStates_)
           reverted == <<Notification(StateName, StreamUInt8(currentLEDState))>>
           held == StreamInt(val)
       IN IF ~pHub
          THEN /\ last' = Call("SetState", 0, <<val>>, pHub, conn, "ERR_HUB_NOT_AVAILABLE", reverted,
                               <<>>, 0, 0)
               /\ obs' = Rec("obs", obs,
                      [obs EXCEPT !.state = Seen(reverted, held)])
               /\ UNCHANGED <<envVars, ledStates_, conf>>
          ELSE IF ~conn
          THEN /\ last' = Call("SetState", 0, <<val>>, pHub, conn, "ERR_CHROLIS_NOT_AVAIL", reverted,
                               <<>>, 0, 0)
               /\ obs' = Rec("obs", obs,
                      [obs EXCEPT !.state = Seen(reverted, held)])
               /\ UNCHANGED <<envVars, ledStates_, conf>>
          ELSE IF val >= 2 ^ NUM_LEDS \/ val < 0
          THEN /\ last' = Call("SetState", 0, <<val>>, pHub, conn, "ERR_PARAM_NOT_VALID", reverted,
                               <<>>, 0, 0)
               /\ obs' = Rec("obs", obs,
                      [obs EXCEPT !.state = Seen(reverted, held)])
               /\ UNCHANGED <<envVars, ledStates_, conf>>
          ELSE \E w \in WriteOutcomes :
               LET newStates == DecodeLEDStatesFromBits(val % 256)
                   still == w # "unavail"
               IN /\ hwEnable' = IF w = "ok" THEN newStates ELSE hwEnable
                  /\ UNCHANGED <<hwBrightness, hwShutter, hwStatus>>
                  /\ IF w = "ok"
                     THEN LET pub == <<Notification(StateName, StreamInt(val))>>
                          IN /\ UNCHANGED ledStates_
                             /\ conf' = Rec("conf", conf,
                                    [conf EXCEPT !.en = Confirm(newStates)])
                             /\ obs' = Rec("obs", obs,
                                    [obs EXCEPT !.state = Seen(pub, held)])
                             /\ last' = Call("SetState", 0, <<val>>, pHub, conn, "DEVICE_OK", pub,
                                             <<>>, 1, 0)
                     ELSE IF w = "unavail"
                     THEN /\ UNCHANGED <<ledStates_, conf>>
                          /\ obs' = Rec("obs", obs,
                                 [obs EXCEPT !.state = held])
                          /\ last' = Call("SetState", 0, <<val>>, pHub, conn, WriteError(w), <<>>,
                                          <<>>, 1, 0)
                     ELSE \E r \in ReadOutcomes(still) :
                          LET states == IF r = "ok" THEN hwEnable ELSE ledStates_
                              pub == <<Notification(StateName,
                                          StreamUInt8(EncodeLEDStatesInBits(states)))>>
                          IN /\ ledStates_' = states
                             /\ conf' = Rec("conf", conf,
                                    [conf EXCEPT
                                           !.en = IF r = "ok" THEN Confirm(hwEnable) ELSE @])
                             /\ obs' = Rec("obs", obs,
                                    [obs EXCEPT !.state = Seen(pub, held)])
                             /\ last' = Call("SetState", 0, <<val>>, pHub, conn, WriteError(w), pub,
                                             <<>>, 1, 1)
    /\ UNCHANGED <<ledBrightnesses_, sdProps, slotVars, monVars, fresh>>

OnState == OnStateBeforeGet \/ OnStateAfterSet

\* OnEnableStateChange, eAct == MM::BeforeGet
OnEnableStateChangeBeforeGet ==
    \E pHub \in BOOLEAN : \E conn \in Connected(pHub) :
    /\ focus \in {"enable"}
    /\ UNCHANGED scopeVars
    /\ sdProps
    /\ \E ledIndex \in EnableLeds :
       IF ~pHub
       THEN /\ last' = Call("GetEnable", ledIndex, <<>>, pHub, conn, "ERR_HUB_NOT_AVAILABLE", <<>>,
                            <<>>, 0, 0)
            /\ UNCHANGED <<ledStates_, obs, conf>>
       ELSE \E r \in ReadOutcomes(conn) :
            LET cell == IF r = "ok" THEN hwEnable[ledIndex] ELSE ledStates_[ledIndex]
                shown == PresentedAfterRead(ledStates_[ledIndex], cell)
            IN /\ ledStates_' = [ledStates_ EXCEPT ![ledIndex] = cell]
               /\ conf' = Rec("conf", conf,
                      [conf EXCEPT !.en[ledIndex] = IF r = "ok" THEN <<cell>> ELSE @])
               /\ obs' = Rec("obs", obs,
                      [obs EXCEPT !.en[ledIndex] = StreamInt(shown)])
               /\ last' = Call("GetEnable", ledIndex, <<>>, pHub, conn, "DEVICE_OK", <<>>,
                               <<shown>>, 0, 1)
    /\ UNCHANGED <<envVars, ledBrightnesses_, sdProps, slotVars, monVars, fresh>>

\* a successful write that leaves the last-known cell as it was
EnableAfterWriteKept(cells, ledIndex, val) == cells

\* *ledBeingControlled = (ViBoolean)val after SetSingleLEDEnableState succeeded:
\* the cell of ledStates_ the aggregate mask is encoded from
EnableAfterWrite(cells, ledIndex, val) == [cells EXCEPT ![ledIndex] = val]

\* OnEnableStateChange, eAct == MM::AfterSet; the property's limits are 0 and 1
OnEnableStateChangeAfterSet ==
    \E pHub \in BOOLEAN : \E conn \in Connected(pHub) :
    /\ focus \in {"enable"}
    /\ UNCHANGED scopeVars
    /\ sdProps
    /\ \E ledIndex \in EnableLeds, val \in 0 .. 1 :
       LET held == StreamInt(val)
           reverted == <<Notification(EnableName(ledIndex), StreamInt(ledStates_[ledIndex]))>>
       IN IF ~pHub
          THEN /\ last' = Call("SetEnable", ledIndex, <<val>>, pHub, conn, "ERR_HUB_NOT_AVAILABLE",
                               reverted, <<>>, 0, 0)
               /\ obs' = Rec("obs", obs,
                      [obs EXCEPT !.en[ledIndex] = Seen(reverted, held)])
               /\ UNCHANGED <<envVars, ledStates_, conf>>
          ELSE IF ~conn
          THEN /\ last' = Call("SetEnable", ledIndex, <<val>>, pHub, conn, "ERR_CHROLIS_NOT_AVAIL",
                               reverted, <<>>, 0, 0)
               /\ obs' = Rec("obs", obs,
                      [obs EXCEPT !.en[ledIndex] = Seen(reverted, held)])
               /\ UNCHANGED <<envVars, ledStates_, conf>>
          ELSE \E w \in WriteOutcomes :
               LET still == w # "unavail"
               IN /\ hwEnable' = IF w = "ok" THEN [hwEnable EXCEPT ![ledIndex] = val]
                                  ELSE hwEnable
                  /\ UNCHANGED <<hwBrightness, hwShutter, hwStatus>>
                  /\ IF w = "ok"
                     THEN LET pub == <<Notification(EnableName(ledIndex), StreamInt(val))>>
                          IN /\ ledStates_' = EnableAfterWrite(ledStates_, ledIndex, val)
                             /\ conf' = Rec("conf", conf,
                                    [conf EXCEPT !.en[ledIndex] = <<val>>])
                             /\ obs' = Rec("obs", obs,
                                    [obs EXCEPT !.en[ledIndex] = Seen(pub, held)])
                             /\ last' = Call("SetEnable", ledIndex, <<val>>, pHub, conn, "DEVICE_OK",
                                             pub, <<>>, 1, 0)
                     ELSE \E r \in ReadOutcomes(still) :
                          LET cell == IF r = "ok" THEN hwEnable[ledIndex]
                                      ELSE ledStates_[ledIndex]
                              pub == <<Notification(EnableName(ledIndex), StreamInt(cell))>>
                          IN /\ ledStates_' = [ledStates_ EXCEPT ![ledIndex] = cell]
                             /\ conf' = Rec("conf", conf,
                                    [conf EXCEPT
                                           !.en[ledIndex] = IF r = "ok" THEN <<cell>> ELSE @])
                             /\ obs' = Rec("obs", obs,
                                    [obs EXCEPT !.en[ledIndex] = Seen(pub, held)])
                             /\ last' = Call("SetEnable", ledIndex, <<val>>, pHub, conn, WriteError(w),
                                             pub, <<>>, 1, 1)
    /\ UNCHANGED <<ledBrightnesses_, sdProps, slotVars, monVars, fresh>>

OnEnableStateChange == OnEnableStateChangeBeforeGet \/ OnEnableStateChangeAfterSet

\* a successful brightness write that leaves the last-known cell as it was
PowerAfterWriteKept(cells, ledIndex, val) == cells

\* *ledBeingControlled = (ViUInt16)val, after a successful brightness write
PowerAfterWrite(cells, ledIndex, val) == [cells EXCEPT ![ledIndex] = val]

\* OnPowerChange, eAct == MM::BeforeGet
OnPowerChangeBeforeGet ==
    \E pHub \in BOOLEAN : \E conn \in Connected(pHub) :
    /\ focus \in PowerFoci
    /\ UNCHANGED scopeVars
    /\ sdProps
    /\ \E ledIndex \in PowerLedsIn(focus) :
       IF ~pHub
       THEN /\ last' = Call("GetPower", ledIndex, <<>>, pHub, conn, "ERR_HUB_NOT_AVAILABLE", <<>>,
                            <<>>, 0, 0)
            /\ UNCHANGED <<ledBrightnesses_, conf>>
       ELSE \E r \in ReadOutcomes(conn) :
            LET cell == IF r = "ok" THEN hwBrightness[ledIndex]
                        ELSE ledBrightnesses_[ledIndex]
            IN /\ ledBrightnesses_' = [ledBrightnesses_ EXCEPT ![ledIndex] = cell]
               /\ conf' = Rec("conf", conf,
                      [conf EXCEPT !.br[ledIndex] = IF r = "ok" THEN <<cell>> ELSE @])
               /\ last' = Call("GetPower", ledIndex, <<>>, pHub, conn, "DEVICE_OK", <<>>,
                               <<PresentedAfterRead(ledBrightnesses_[ledIndex], cell)>>, 0, 1)
    /\ UNCHANGED <<envVars, ledStates_, sdProps, slotVars, monVars, obs, fresh>>

\* OnPowerChange, eAct == MM::AfterSet; the property's limits are
\* ledMinBrightness_ and ledMaxBrightness_
OnPowerChangeAfterSet ==
    \E pHub \in BOOLEAN : \E conn \in Connected(pHub) :
    /\ focus \in PowerFoci
    /\ UNCHANGED scopeVars
    /\ sdProps
    /\ \E ledIndex \in PowerLedsIn(focus), val \in Brightness :
       LET reverted == <<Notification(PowerName(ledIndex),
                                      StreamInt(ledBrightnesses_[ledIndex]))>>
       IN IF ~pHub
          THEN /\ last' = Call("SetPower", ledIndex, <<val>>, pHub, conn, "ERR_HUB_NOT_AVAILABLE",
                               reverted, <<>>, 0, 0)
               /\ UNCHANGED <<envVars, ledBrightnesses_, conf, fresh>>
          ELSE IF ~conn
          THEN /\ last' = Call("SetPower", ledIndex, <<val>>, pHub, conn, "ERR_CHROLIS_NOT_AVAIL",
                               reverted, <<>>, 0, 0)
               /\ UNCHANGED <<envVars, ledBrightnesses_, conf, fresh>>
          ELSE \E w \in WriteOutcomes :
               LET still == w # "unavail"
               IN /\ hwBrightness' = IF w = "ok" THEN [hwBrightness EXCEPT ![ledIndex] = val]
                                      ELSE hwBrightness
                  /\ UNCHANGED <<hwEnable, hwShutter, hwStatus>>
                  /\ IF w = "ok"
                     THEN /\ ledBrightnesses_' = PowerAfterWrite(ledBrightnesses_, ledIndex, val)
                          /\ conf' = Rec("conf", conf,
                                 [conf EXCEPT !.br[ledIndex] = <<val>>])
                          /\ fresh' = Rec("fresh", fresh,
                                 [fresh EXCEPT ![ledIndex] = <<val>>])
                          /\ last' = Call("SetPower", ledIndex, <<val>>, pHub, conn, "DEVICE_OK",
                                          <<Notification(PowerName(ledIndex), StreamInt(val))>>,
                                          <<>>, 1, 0)
                     ELSE \E r \in ReadOutcomes(still) :
                          LET cell == IF r = "ok" THEN hwBrightness[ledIndex]
                                      ELSE ledBrightnesses_[ledIndex]
                          IN /\ ledBrightnesses_' = [ledBrightnesses_ EXCEPT ![ledIndex] = cell]
                             /\ conf' = Rec("conf", conf,
                                    [conf EXCEPT
                                           !.br[ledIndex] = IF r = "ok" THEN <<cell>> ELSE @])
                             /\ fresh' = Rec("fresh", fresh,
                                    [fresh EXCEPT ![ledIndex] = <<>>])
                             /\ last' = Call("SetPower", ledIndex, <<val>>, pHub, conn, WriteError(w),
                                             <<Notification(PowerName(ledIndex),
                                                            StreamInt(cell))>>,
                                             <<>>, 1, 1)
    /\ UNCHANGED <<ledStates_, sdProps, slotVars, monVars, obs>>

OnPowerChange == OnPowerChangeBeforeGet \/ OnPowerChangeAfterSet

\* ------------------------------------------------------- ChrolisShutter
ShutterInitialize ==
    \E pHub \in BOOLEAN : \E conn \in Connected(pHub) :
    /\ focus \in ShutterFoci
    /\ UNCHANGED scopeVars
    /\ IF ~pHub
       THEN /\ last' = Call("ShutterInitialize", 0, <<>>, pHub, conn, "ERR_HUB_NOT_AVAILABLE", <<>>,
                            <<>>, 0, 0)
            /\ UNCHANGED <<envVars, shutterCallback_>>
       ELSE /\ shutterCallback_' = "shutter"
            /\ IF conn
               THEN \E w \in WriteOutcomes :
                    /\ hwShutter' = IF w = "ok" THEN FALSE ELSE hwShutter
                    /\ UNCHANGED <<hwEnable, hwBrightness, hwStatus>>
                    /\ last' = Call("ShutterInitialize", 0, <<>>, pHub, conn, "DEVICE_OK", <<>>, <<>>,
                                    1, 0)
               ELSE /\ UNCHANGED envVars
                    /\ last' = Call("ShutterInitialize", 0, <<>>, pHub, conn, "DEVICE_OK", <<>>, <<>>,
                                    0, 0)
    /\ UNCHANGED <<devVars, stateCallback_, slotWrite, monVars, obs, conf, fresh>>

ShutterShutdown ==
    \E pHub \in BOOLEAN :
    /\ focus \in ShutterFoci
    /\ UNCHANGED scopeVars
    /\ IF pHub THEN shutterCallback_' = "noop" ELSE UNCHANGED shutterCallback_
    /\ last' = Call("ShutterShutdown", 0, <<>>, pHub, FALSE, "DEVICE_OK", <<>>, <<>>, 0, 0)
    /\ UNCHANGED <<envVars, devVars, stateCallback_, slotWrite, monVars, obs, conf, fresh>>

SetOpen ==
    \E pHub \in BOOLEAN : \E conn \in Connected(pHub) :
    /\ focus \in ShutterFoci
    /\ UNCHANGED scopeVars
    /\ \E open \in BOOLEAN :
       LET val == IF open THEN 1 ELSE 0
       IN /\ IF ~pHub
             THEN /\ last' = Call("SetOpen", 0, <<val>>, pHub, conn, "ERR_HUB_NOT_AVAILABLE", <<>>, <<>>, 0, 0)
                  /\ UNCHANGED envVars
             ELSE IF ~conn
             THEN /\ last' = Call("SetOpen", 0, <<val>>, pHub, conn, "ERR_CHROLIS_NOT_AVAIL", <<>>, <<>>, 0, 0)
                  /\ UNCHANGED envVars
             ELSE \E w \in WriteOutcomes :
                  /\ hwShutter' = IF w = "ok" THEN open ELSE hwShutter
                  /\ UNCHANGED <<hwEnable, hwBrightness, hwStatus>>
                  /\ last' = Call("SetOpen", 0, <<val>>, pHub, conn, WriteError(w), <<>>, <<>>, 1, 0)
          /\ UNCHANGED <<devVars, slotVars, monVars, obs, conf, fresh>>

\* GetOpen ignores the result of GetShutterState: when the read fails, open
\* keeps whatever the caller's variable held
GetOpen ==
    \E pHub \in BOOLEAN : \E conn \in Connected(pHub) :
    /\ focus \in ShutterFoci
    /\ UNCHANGED scopeVars
    /\ IF ~pHub
       THEN last' = Call("GetOpen", 0, <<>>, pHub, conn, "ERR_HUB_NOT_AVAILABLE", <<>>, <<>>, 0, 0)
       ELSE IF ~conn
       THEN last' = Call("GetOpen", 0, <<>>, pHub, conn, "ERR_CHROLIS_NOT_AVAIL", <<>>, <<>>, 0, 0)
       ELSE \E r \in ReadOutcomes(conn), callers \in 0 .. 1 :
            LET open == IF r = "ok" THEN (IF hwShutter THEN 1 ELSE 0) ELSE callers
            IN last' = Call("GetOpen", 0, <<>>, pHub, conn, "DEVICE_OK", <<>>, <<open>>, 0, 1)
    /\ UNCHANGED <<envVars, devVars, slotVars, monVars, obs, conf, fresh>>

\* ------------------------------------------------------------ ChrolisHub
\* a test of the bit above the one meant
StatusBitAbove(code, k) == (code \div (2 ^ (k + 1))) % 2 >= 1

StatusBit(code, k) == (code \div (2 ^ k)) % 2 >= 1

AddCondition(msg, text) == IF Len(msg) > 0 THEN msg \o ", " \o text ELSE msg \o text

\* the text StatusChangedPollingThread builds from the code it decodes
StatusMessage(code) ==
    IF code = 0 THEN "No Error"
    ELSE LET m0 == IF StatusBit(code, 0) THEN "Box is Open" ELSE ""
             m1 == IF StatusBit(code, 1) THEN AddCondition(m0, "LLG not Connected") ELSE m0
             m2 == IF StatusBit(code, 2) THEN AddCondition(m1, "Interlock is Open") ELSE m1
             m3 == IF StatusBit(code, 3) THEN AddCondition(m2, "Using Default Adjustment")
                   ELSE m2
             m4 == IF StatusBit(code, 4) THEN AddCondition(m3, "Box Overheated") ELSE m3
             m5 == IF StatusBit(code, 5) THEN AddCondition(m4, "LED Overheated") ELSE m4
             m6 == IF StatusBit(code, 6) THEN AddCondition(m5, "Invalid Box Setup") ELSE m5
         IN IF Len(m6) = 0 THEN "Unknown Status" ELSE m6

\* the code the loop decodes and tests against zero: the one it loaded from
\* currentDeviceStatusCode_ before storing the code just read
DecodedStatus(curStatus, tempStatus) == curStatus

\* a failed status read that is logged and followed by the next iteration
AfterStatusReadErrorContinue == [running |-> TRUE, pc |-> "sleep"]

\* threadRunning_.store(false); return; after GetDeviceStatus failed
AfterStatusReadError == [running |-> FALSE, pc |-> "done"]

\* a loop that never looks at the flag
LoopContinuesAlways(running) == TRUE

\* while (threadRunning_.load())
LoopContinues(running) == running

\* a wait that returns without the thread having finished
JoinReturnsAtOnce(threadPc) == TRUE

\* updateThread_.join() returns once the thread function has returned
JoinReturns(threadPc) == threadPc = "done"

\* a slot that keeps calling the state device's handler whatever was installed
InvokeStale(slot, ledNum, state) == StateHandler(ledNum, state)

\* stateCallback_(ledNum, state): the installed std::function is called; the
\* lambda installed by Shutdown, and the slot's initial value, do nothing
Invoke(slot, ledNum, state) == IF slot = "state" THEN StateHandler(ledNum, state) ELSE <<>>

HubInitialize ==
    /\ focus \in MonitorFoci
    /\ UNCHANGED scopeVars
    /\ slotWrite = "none"
    /\ hub = "constructed"
    /\ \E started \in BOOLEAN :
       IF started
       THEN /\ hub' = "initialized"
            /\ threadRunning_' = TRUE
            /\ updateThread_' = "joinable"
            /\ mpc' = "check"
       ELSE UNCHANGED <<hub, threadRunning_, updateThread_, mpc>>
    /\ UNCHANGED <<envVars, devVars, slotVars, currentDeviceStatusCode_, tempEnableStates,
                   pushIdx, message, iter, histVars>>

\* Shutdown up to updateThread_.join()
HubShutdown ==
    /\ focus \in MonitorFoci
    /\ UNCHANGED scopeVars
    /\ slotWrite = "none"
    /\ hub \in {"constructed", "initialized"}
    /\ IF threadRunning_
       THEN /\ threadRunning_' = FALSE
            /\ hub' = "joining"
       ELSE /\ hub' = "shutdown"
            /\ UNCHANGED threadRunning_
    /\ UNCHANGED <<envVars, devVars, slotVars, currentDeviceStatusCode_, updateThread_, mpc,
                   tempEnableStates, pushIdx, message, iter, histVars>>

\* updateThread_.join() returns once the thread function has returned
HubShutdownJoined ==
    /\ focus \in MonitorFoci
    /\ UNCHANGED scopeVars
    /\ hub = "joining"
    /\ JoinReturns(mpc)
    /\ updateThread_' = "joined"
    /\ hub' = "shutdown"
    /\ UNCHANGED <<envVars, devVars, slotVars, threadRunning_, currentDeviceStatusCode_, mpc,
                   tempEnableStates, pushIdx, message, iter, histVars>>

\* while (threadRunning_.load())
LoopCheck ==
    /\ focus \in MonitorFoci
    /\ UNCHANGED scopeVars
    /\ mpc = "check"
    /\ mpc' = IF LoopContinues(threadRunning_) THEN "body" ELSE "done"
    /\ UNCHANGED <<envVars, devVars, slotVars, hub, threadRunning_, currentDeviceStatusCode_,
                   updateThread_, tempEnableStates, pushIdx, message, iter,
                   histVars>>

\* the loop body up to the first stateCallback_ invocation
PollStatus ==
    /\ focus \in MonitorFoci
    /\ UNCHANGED scopeVars
    /\ mpc = "body"
    /\ \E conn \in BOOLEAN :
       IF ~conn
       THEN /\ mpc' = "sleep"
            /\ iter' = Poll("skipped", currentDeviceStatusCode_, currentDeviceStatusCode_,
                            "none", <<>>)
            /\ UNCHANGED <<threadRunning_, currentDeviceStatusCode_, tempEnableStates,
                           pushIdx, message>>
       ELSE \E rs \in ReadOutcomes(conn) :
            IF rs = "fail"
            THEN /\ threadRunning_' = AfterStatusReadError.running
                 /\ mpc' = AfterStatusReadError.pc
                 /\ message' = ""
                 /\ iter' = Poll("failed", currentDeviceStatusCode_,
                                 currentDeviceStatusCode_, "none", <<>>)
                 /\ UNCHANGED <<currentDeviceStatusCode_, tempEnableStates, pushIdx>>
            ELSE LET tempStatus == hwStatus
                     curStatus == currentDeviceStatusCode_
                     statusChanged == curStatus # tempStatus
                     decoded == DecodedStatus(curStatus, tempStatus)
                 IN /\ currentDeviceStatusCode_' = tempStatus
                    /\ message' = StatusMessage(decoded)
                    /\ UNCHANGED threadRunning_
                    /\ IF statusChanged /\ decoded # 0
                       THEN \E re \in ReadOutcomes(conn) :
                            /\ iter' = Poll("polled", curStatus, tempStatus, re,
                                            IF re = "ok" THEN <<hwEnable>> ELSE <<>>)
                            /\ IF re = "ok"
                               THEN /\ tempEnableStates' = hwEnable
                                    /\ pushIdx' = 0
                                    /\ mpc' = "push"
                               ELSE /\ mpc' = "publish"
                                    /\ UNCHANGED <<tempEnableStates, pushIdx>>
                       ELSE /\ iter' = Poll("polled", curStatus, tempStatus, "none", <<>>)
                            /\ mpc' = "publish"
                            /\ UNCHANGED <<tempEnableStates, pushIdx>>
    /\ UNCHANGED <<envVars, devVars, slotVars, hub, updateThread_, histVars>>

\* arguments that pair channel number k with the flag of the channel after it
PushArgsSkewed(k, states) ==
    [ledNum |-> k,
     state |-> IF k = 0 THEN EncodeLEDStatesInBits(states) ELSE states[k % NUM_LEDS]]

\* the arguments of the pushIdx-th invocation of the batch
PushArgs(k, states) ==
    [ledNum |-> k,
     state |-> IF k = 0 THEN EncodeLEDStatesInBits(states) ELSE states[k - 1]]

\* what an invocation finds in the slot: the handler installed or, while
\* stateCallback_ = function runs on the caller's thread with nothing ordering
\* the two accesses, the previous handler, the new one or a std::function
\* caught in the middle of its assignment
Observed(slot, writing) ==
    IF writing = "none" THEN {slot} ELSE {slot, writing, "torn"}

\* one stateCallback_(ledNum, state) invocation
PushState ==
    /\ focus \in MonitorFoci
    /\ UNCHANGED scopeVars
    /\ mpc = "push"
    /\ \E found \in Observed(stateCallback_, slotWrite) :
       LET a == PushArgs(pushIdx, tempEnableStates)
           pub == Invoke(found, a.ledNum, a.state)
       IN /\ iter' = [iter EXCEPT !.calls = Append(@, [slot |-> "state",
                                                        ledNum |-> a.ledNum,
                                                        state |-> a.state]),
                                  !.handlers = @ \cup {found},
                                  !.ran = [handler |-> found, pub |-> pub]]
          /\ obs' = Rec("obs", obs,
                        IF pub = <<>> THEN obs
                        ELSE IF a.ledNum = 0 THEN [obs EXCEPT !.state = pub[1].text]
                        ELSE [obs EXCEPT !.en[a.ledNum - 1] = pub[1].text])
    /\ IF pushIdx = NUM_LEDS
       THEN /\ mpc' = "publish"
            /\ UNCHANGED pushIdx
       ELSE /\ pushIdx' = pushIdx + 1
            /\ UNCHANGED mpc
    /\ UNCHANGED <<envVars, devVars, slotVars, hub, threadRunning_, currentDeviceStatusCode_,
                   updateThread_, tempEnableStates, message, last, conf, fresh>>

\* OnPropertyChanged("Device Status", message.c_str()); tempEnableStates
\* goes out of scope with the block
PublishStatus ==
    /\ focus \in MonitorFoci
    /\ UNCHANGED scopeVars
    /\ mpc = "publish"
    /\ iter' = [iter EXCEPT !.phase = "complete", !.status = <<message>>]
    /\ mpc' = "sleep"
    /\ tempEnableStates' = AllOff
    /\ pushIdx' = 0
    /\ UNCHANGED <<envVars, devVars, slotVars, hub, threadRunning_, currentDeviceStatusCode_,
                   updateThread_, message, histVars>>

\* Sleep(500); message is cleared before the loop reads it again
PollDelay ==
    /\ focus \in MonitorFoci
    /\ UNCHANGED scopeVars
    /\ mpc = "sleep"
    /\ mpc' = "check"
    /\ message' = ""
    /\ iter' = NoPoll
    /\ UNCHANGED <<envVars, devVars, slotVars, hub, threadRunning_, currentDeviceStatusCode_,
                   updateThread_, tempEnableStates, pushIdx, histVars>>

StatusChangedPollingThread ==
    LoopCheck \/ PollStatus \/ PushState \/ PublishStatus \/ PollDelay

\* ------------------------------------------------------------ environment
\* the instrument switches an LED off by itself (interlock, overheating)
HardwareDisablesLeds ==
    /\ focus \in {"enable", "monitor"}
    /\ UNCHANGED scopeVars
    /\ \E i \in InterlockedLeds :
       /\ hwEnable[i] # 0
       /\ hwEnable' = [hwEnable EXCEPT ![i] = 0]
    /\ UNCHANGED <<hwBrightness, hwShutter, hwStatus, devVars,
                   slotVars, monVars, histVars>>

\* the brightness of an LED is changed at the instrument
HardwareChangesBrightness ==
    /\ focus \in PowerFoci
    /\ UNCHANGED scopeVars
    /\ \E i \in PowerLedsIn(focus), b \in Brightness :
       /\ b # hwBrightness[i]
       /\ hwBrightness' = [hwBrightness EXCEPT ![i] = b]
       /\ fresh' = Rec("fresh", fresh,
              [fresh EXCEPT ![i] = <<>>])
    /\ UNCHANGED <<hwEnable, hwShutter, hwStatus, devVars,
                   slotVars, monVars, last, obs, conf>>

\* the instrument's status code changes
HardwareChangesStatus ==
    /\ focus \in {"monitor"}
    /\ UNCHANGED scopeVars
    /\ \E c \in StatusCodes :
       /\ c # hwStatus
       /\ hwStatus' = c
    /\ UNCHANGED <<hwEnable, hwBrightness, hwShutter, devVars, slotVars, monVars, histVars>>

\* --------------------------------------------------------- specification
\* A behaviour explores one scope: the host's calls on one family of
\* properties (focus "enable", "power", "shutter"), the hub's lifecycle and
\* its polling thread together with the state device's lifecycle ("monitor"),
\* or the polling thread next to the host's calls on the first brightness
\* property or on the shutter ("power+monitor", "shutter+monitor").
Next ==
    \/ SetStateCallback
    \/ StateDeviceInitialize
    \/ StateDeviceShutdown
    \/ OnState
    \/ OnEnableStateChange
    \/ OnPowerChange
    \/ ShutterInitialize
    \/ ShutterShutdown
    \/ SetOpen
    \/ GetOpen
    \/ HubInitialize
    \/ HubShutdown
    \/ HubShutdownJoined
    \/ StatusChangedPollingThread
    \/ HardwareDisablesLeds
    \/ HardwareChangesBrightness
    \/ HardwareChangesStatus

Spec == Init /\ [][Next]_vars

\* The hub's lifecycle and its polling thread under the scheduling the
\* platform gives: a thread that can take a step eventually takes one, and
\* a join whose thread has returned eventually returns.
LiveInit ==
    /\ focus = "monitor"
    /\ track = {}
    /\ Constructed

LiveNext ==
    \/ SetStateCallback
    \/ StateDeviceInitialize
    \/ StateDeviceShutdown
    \/ HubInitialize
    \/ HubShutdown
    \/ HubShutdownJoined
    \/ StatusChangedPollingThread
    \/ HardwareDisablesLeds
    \/ HardwareChangesStatus

LiveSpec ==
    /\ LiveInit /\ [][LiveNext]_vars
    /\ WF_vars(StatusChangedPollingThread) /\ WF_vars(HubShutdownJoined)

\* ------------------------------------------------------- pure functions
\* The codec and the status decoding applied to every input of their
\* domains, outside any device call.
Bytes == 0 .. 255
BoolVectors == [Leds -> 0 .. 1]

PureInit ==
    /\ focus = "pure"
    /\ track = {}
    /\ Constructed

PureCall(op, val, shown) ==
    Call(op, 0, val, FALSE, FALSE, "DEVICE_OK", <<>>, shown, 0, 0)

\* EncodeLEDStatesInBits(states) for a vector of booleans
CallEncode ==
    /\ focus = "pure"
    /\ \E v \in BoolVectors :
       /\ tempEnableStates' = v
       /\ last' = PureCall("Encode", <<>>, <<EncodeLEDStatesInBits(v)>>)
    /\ ledStates_' = AllOff
    /\ currentDeviceStatusCode_' = 0
    /\ message' = ""
    /\ UNCHANGED <<envVars, ledBrightnesses_, sdProps, slotVars, hub, threadRunning_,
                   updateThread_, mpc, pushIdx, iter, obs, conf, fresh, scopeVars>>

\* DecodeLEDStatesFromBits(bits) for a std::uint8_t
CallDecode ==
    /\ focus = "pure"
    /\ \E bits \in Bytes :
       /\ ledStates_' = DecodeLEDStatesFromBits(bits)
       /\ last' = PureCall("Decode", <<bits>>, <<>>)
    /\ tempEnableStates' = AllOff
    /\ currentDeviceStatusCode_' = 0
    /\ message' = ""
    /\ UNCHANGED <<envVars, ledBrightnesses_, sdProps, slotVars, hub, threadRunning_,
                   updateThread_, mpc, pushIdx, iter, obs, conf, fresh, scopeVars>>

\* the decoding block of StatusChangedPollingThread for a status code
CallStatusMessage ==
    /\ focus = "pure"
    /\ \E code \in 0 .. MaxStatusCode :
       /\ currentDeviceStatusCode_' = code
       /\ message' = StatusMessage(code)
       /\ last' = PureCall("StatusMessage", <<code>>, <<>>)
    /\ ledStates_' = AllOff
    /\ tempEnableStates' = AllOff
    /\ UNCHANGED <<envVars, ledBrightnesses_, sdProps, slotVars, hub, threadRunning_,
                   updateThread_, mpc, pushIdx, iter, obs, conf, fresh, scopeVars>>

PureNext == CallEncode \/ CallDecode \/ CallStatusMessage

PureSpec == PureInit /\ [][PureNext]_vars

\* ------------------------------------------------------------- properties
WriteOps == {"SetState", "SetEnable", "SetPower"}

\* the property a call of the state device is about
PropertyOf(call) ==
    IF call.op \in {"GetState", "SetState"} THEN StateName
    ELSE IF call.op \in {"GetEnable", "SetEnable"} THEN EnableName(call.idx)
    ELSE PowerName(call.idx)

\* the last-known value of that property in the given cells
LastKnown(call, states, brights) ==
    IF call.op \in {"GetState", "SetState"} THEN EncodeLEDStatesInBits(states)
    ELSE IF call.op \in {"GetEnable", "SetEnable"} THEN states[call.idx]
    ELSE brights[call.idx]

\* the call published value v, as a number, to its property and nothing else
Republished(call, v) == call.pub = <<[prop |-> PropertyOf(call), text |-> StreamInt(v)]>>

\* every cell the call's property is made of has been confirmed by hardware
Confirmed(call) ==
    IF call.op = "SetState" THEN \A i \in Leds : conf.en[i] # <<>>
    ELSE IF call.op = "SetEnable" THEN conf.en[call.idx] # <<>>
    ELSE conf.br[call.idx] # <<>>

\* the value of the latest successful hardware read or write of the property
ConfirmedValue(call) ==
    IF call.op = "SetState" THEN EncodeLEDStatesInBits([i \in Leds |-> conf.en[i][1]])
    ELSE IF call.op = "SetEnable" THEN conf.en[call.idx][1]
    ELSE conf.br[call.idx][1]

\* C1: a write that the hardware rejects with an error other than
\* device-unavailable returns that error and republishes the value of the
\* latest successful hardware read or write of the property.
C1_RejectedWriteRepublishesConfirmed ==
    ( /\ "conf" \in track
      /\ last.op \in WriteOps /\ last.hub /\ last.conn /\ last.writes = 1
      /\ last.ret \notin {"DEVICE_OK", "ERR_CHROLIS_NOT_AVAIL"}
      /\ Confirmed(last) )
    => /\ last.ret = "ERR_IMPROPER_SET"
       /\ Republished(last, ConfirmedValue(last))

\* C2: after a hardware write of v succeeds, the last-known value of the
\* property is v, v is republished and the handler returns success.
C2_SuccessfulWriteUpdatesLastKnown ==
    (last.op \in WriteOps /\ last.writes = 1 /\ last.ret = "DEVICE_OK")
    => /\ LastKnown(last, ledStates_, ledBrightnesses_) = last.val[1]
       /\ Republished(last, last.val[1])

\* the batch of state-slot invocations for the enable states e
Batch(e) == [k \in 1 .. (NUM_LEDS + 1) |-> PushArgs(k - 1, e)]

\* the arguments of the invocations a poll iteration made
CallArgs(calls) ==
    [k \in 1 .. Len(calls) |-> [ledNum |-> calls[k].ledNum, state |-> calls[k].state]]

\* C3: a poll that reads a non-zero status code different from the one
\* observed before invokes the state handler with (0, mask) and (k, enabled_k)
\* for k = 1..6, with the enable states just read from the hardware.
C3_ChangeToNonZeroPushes ==
    ( /\ iter.phase = "complete"
      /\ iter.read # iter.prev /\ iter.read # 0
      /\ iter.reread # "fail" )
    => /\ iter.states # <<>>
       /\ CallArgs(iter.calls) = Batch(iter.states[1])

\* C4: the monitor invokes the state slot only in a poll whose newly read
\* status code differs from the one observed before and is non-zero.
C4_PushOnlyOnChangeToNonZero ==
    iter.calls # <<>> => (iter.read # iter.prev /\ iter.read # 0)

\* C5: every poll that reads a status code publishes to "Device Status" the
\* decoding of the code it has just read.
C5_PublishesDecodingOfCodeRead ==
    iter.phase = "complete" => iter.status = <<StatusMessage(iter.read)>>

\* C6: the value the host sees of the State property agrees bit by bit with
\* the values it sees of the six enable properties.
C6_AggregateAgreesWithChannels ==
    ("obs" \in track /\ sdProps)
    => \E m \in 0 .. (2 ^ NUM_LEDS - 1) :
          /\ obs.state = StreamInt(m)
          /\ \A i \in Leds : obs.en[i] = StreamInt(DecodeLEDStatesFromBits(m)[i])

\* C7: after a successful write of brightness b to an LED, with no other
\* write and no change at the instrument since, a read of that property
\* presents b, whether its hardware read succeeds or fails.
C7_BrightnessWriteThenRead ==
    (last.op = "GetPower" /\ last.hub /\ fresh[last.idx] # <<>>)
    => /\ last.ret = "DEVICE_OK"
       /\ last.shown = fresh[last.idx]

\* a read that follows a successful write of the largest brightness, its
\* hardware read failing because the device is not connected
C7_Witness ==
    /\ last.op = "GetPower" /\ last.hub /\ ~last.conn
    /\ fresh[last.idx] = <<MaxBrightness>>
    /\ last.shown = <<MaxBrightness>>

OutOfRange(val) == val >= 2 ^ NUM_LEDS \/ val < 0

\* C8: a State write outside [0, 63], hub resolved and device connected,
\* returns ParamNotValid, attempts no hardware write, leaves the last-known
\* enable states unchanged and republishes the last-known aggregate value.
C8_OutOfRangeWriteRejected ==
    [][ ( /\ last'.op = "SetState" /\ last'.hub /\ last'.conn
          /\ OutOfRange(last'.val[1]) )
        => /\ last'.ret = "ERR_PARAM_NOT_VALID"
           /\ last'.writes = 0
           /\ ledStates_' = ledStates_
           /\ Republished(last', EncodeLEDStatesInBits(ledStates_)) ]_vars

\* C9: a write to a state-device property while the hub cannot be resolved
\* returns HubUnavailable, makes no hardware call, leaves every last-known
\* value unchanged and republishes the last-known value.
C9_HubUnavailableWrite ==
    [][ (last'.op \in WriteOps /\ ~last'.hub)
        => /\ last'.ret = "ERR_HUB_NOT_AVAILABLE"
           /\ last'.writes = 0 /\ last'.reads = 0
           /\ ledStates_' = ledStates_ /\ ledBrightnesses_' = ledBrightnesses_
           /\ Republished(last', LastKnown(last', ledStates_, ledBrightnesses_)) ]_vars

\* C10: a write issued while the device reports not-connected returns
\* DeviceUnavailable, attempts no hardware write, leaves last-known unchanged
\* and, on the state device, republishes the last-known value.
C10_NotConnectedWrite ==
    [][ (last'.op \in WriteOps \cup {"SetOpen"} /\ last'.hub /\ ~last'.conn)
        => /\ last'.ret = "ERR_CHROLIS_NOT_AVAIL"
           /\ last'.writes = 0
           /\ ledStates_' = ledStates_ /\ ledBrightnesses_' = ledBrightnesses_
           /\ last'.op \in WriteOps
              => Republished(last', LastKnown(last', ledStates_, ledBrightnesses_)) ]_vars

\* C11: a hardware write that fails with the device-unavailable error, on
\* the aggregate mask, a per-channel enable or a per-channel brightness,
\* returns that error without a re-read and without republishing.
C11_UnavailableCarveOutEverywhere ==
    (last.op \in WriteOps /\ last.writes = 1 /\ last.ret = "ERR_CHROLIS_NOT_AVAIL")
    => /\ last.reads = 0
       /\ last.pub = <<>>

ReadOps == {"GetState", "GetEnable", "GetPower", "GetOpen"}

\* C12: a read of any hardware-backed property with the hub resolved returns
\* success and yields a value, also when the device is not connected or the
\* hardware read fails.
C12_ReadNeverFails ==
    (last.op \in ReadOps /\ last.hub)
    => /\ last.ret = "DEVICE_OK"
       /\ last.shown # <<>>

\* the value the hardware holds for the property a call is about
HardwareValue(call) ==
    IF call.op = "GetState" THEN EncodeLEDStatesInBits(hwEnable)
    ELSE IF call.op = "GetEnable" THEN hwEnable[call.idx]
    ELSE hwBrightness[call.idx]

C14_FailedStatusReadStopsLoopOnly ==
    [][ iter.phase = "failed"
        => /\ mpc = "done" /\ mpc' = "done"
           /\ ~threadRunning_ /\ ~threadRunning_'
           /\ iter' = iter
           /\ currentDeviceStatusCode_' = currentDeviceStatusCode_
           /\ message' = message
           /\ (last'.op = "SetPower" /\ last'.ret = "DEVICE_OK")
              => /\ ledBrightnesses_'[last'.idx] = last'.val[1]
                 /\ Republished(last', last'.val[1])
           /\ (last'.op = "GetPower" /\ last'.hub)
              => /\ last'.ret = "DEVICE_OK"
                 /\ last'.shown = <<ledBrightnesses_'[last'.idx]>>
           /\ (last'.op = "SetOpen" /\ last'.hub /\ ~last'.conn)
              => last'.ret = "ERR_CHROLIS_NOT_AVAIL" /\ hwShutter' = hwShutter
           /\ (last'.op = "SetOpen" /\ last'.ret = "DEVICE_OK")
              => hwShutter' = (last'.val[1] = 1) ]_vars

\* the loop has stopped on a failed status read and a brightness written
\* before is read back
C14_Witness ==
    /\ iter.phase = "failed" /\ mpc = "done" /\ ~threadRunning_
    /\ last.op = "GetPower" /\ last.ret = "DEVICE_OK"
    /\ fresh[last.idx] = <<MaxBrightness>>
    /\ last.shown = <<MaxBrightness>>

\* C15: when hub Shutdown has returned after a successful Initialize, the
\* polling thread has been joined, also when the loop had stopped itself on a
\* failed status read.
C15_ShutdownJoinsStoppedLoop ==
    hub = "shutdown" => updateThread_ # "joinable"

\* C16: after hub Shutdown has returned the polling thread is not running: it
\* was never started or it has returned, so it reads, publishes and pushes
\* nothing.
C16_NoMonitorAfterShutdown ==
    hub = "shutdown" => mpc \in {"idle", "done"}

\* Shutdown has returned after joining a thread that polled a non-zero status
C16_Witness ==
    /\ hub = "shutdown" /\ updateThread_ = "joined" /\ mpc = "done"
    /\ currentDeviceStatusCode_ # 0

\* C17: once hub Shutdown has cleared the running flag and waits, the loop
\* leaves at its next check and the wait returns.
C17_ShutdownTerminates ==
    (hub = "joining") ~> (hub = "shutdown" /\ mpc = "done" /\ updateThread_ = "joined")

\* Shutdown waits and the loop has seen the cleared flag at its check and
\* returned
C17_Witness ==
    /\ hub = "joining" /\ mpc = "done"
    /\ ~threadRunning_ /\ iter.phase = "none"

\* C18: an invocation of the state slot calls the handler installed at that
\* moment: the no-op publishes nothing, the state device's handler publishes
\* the pushed value; installing a handler delivers nothing from before.
C18_LastWriterWinsNoBuffering ==
    [][ /\ Len(iter'.calls) > Len(iter.calls)
           => LET c == iter'.calls[Len(iter'.calls)]
                  ran == iter'.ran
              IN /\ slotWrite = "none" => ran.handler = stateCallback_
                 /\ ran.handler = "noop" => ran.pub = <<>>
                 /\ ran.handler = "state" => ran.pub = StateHandler(c.ledNum, c.state)
        /\ (stateCallback_' # stateCallback_ \/ slotWrite' # slotWrite)
           => iter' = iter ]_vars

\* within one batch a push is dropped by the no-op and, after Initialize has
\* installed the handler again, a later push is published
C18_Witness ==
    /\ slotWrite = "none" /\ stateCallback_ = "state"
    /\ "noop" \in iter.handlers /\ "torn" \notin iter.handlers
    /\ iter.ran.handler = "state" /\ iter.ran.pub # <<>>

\* bit k of a number
HasBit(n, k) == (n \div (2 ^ k)) % 2 = 1

\* C19: decoding x in 0..63 and encoding the result gives x, with element i
\* true iff bit i of x is set; encoding a vector of 6 booleans gives a number
\* in 0..63 whose decoding is that vector.
C19_CodecRoundTrip ==
    /\ (last.op = "Decode" /\ last.val[1] \in 0 .. (2 ^ NUM_LEDS - 1))
       => /\ EncodeLEDStatesInBits(ledStates_) = last.val[1]
          /\ \A i \in Leds : (ledStates_[i] = 1) <=> HasBit(last.val[1], i)
    /\ last.op = "Encode"
       => /\ last.shown[1] \in 0 .. (2 ^ NUM_LEDS - 1)
          /\ DecodeLEDStatesFromBits(last.shown[1]) = tempEnableStates
          /\ \A i \in Leds : (tempEnableStates[i] = 1) <=> HasBit(last.shown[1], i)

\* 37 = 1 + 4 + 32 has been decoded to LEDs 1, 3 and 6 enabled
C19_Witness ==
    /\ last.op = "Decode" /\ last.val = <<37>>
    /\ ledStates_ = [i \in Leds |-> IF i \in {0, 2, 5} THEN 1 ELSE 0]

\* s contains t
Contains(s, t) == \E i \in 1 .. (Len(s) - Len(t) + 1) : SubSeq(s, i, i + Len(t) - 1) = t

\* C20: the status text for code 0 is "No Error"; for a code with bit 2 set it
\* includes "Interlock is Open"; for a non-zero code with none of bits 0..6
\* set it is "Unknown Status"; it is never empty.
C20_StatusDecoding ==
    last.op = "StatusMessage"
    => LET code == last.val[1]
       IN /\ message # ""
          /\ code = 0 => message = "No Error"
          /\ HasBit(code, 2) => Contains(message, "Interlock is Open")
          /\ (code # 0 /\ \A k \in 0 .. 6 : ~HasBit(code, k)) => message = "Unknown Status"

\* code 133 (bits 0, 2 and 7) has been decoded
C20_Witness ==
    /\ last.op = "StatusMessage" /\ last.val = <<133>>
    /\ message = "Box is Open, Interlock is Open"

\* C21: replacing the handler in the state slot is atomic with respect to the
\* polling thread's invocations: every invocation runs the handler installed
\* before the replacement or the one installed by it, never a slot caught in
\* the middle of its assignment.
C21_SlotReplacementAtomic ==
    /\ "torn" \notin iter.handlers
    /\ iter.ran.handler \in {"none", "state", "noop"}

\* calls is the start of the seven invocations one snapshot e of the enable
\* states gives rise to: (0, mask), (1, e_0), ..., (6, e_5), bit i of mask
\* set exactly when e_i is
StartOfSevenInvocations(calls, e) ==
    /\ Len(calls) <= NUM_LEDS + 1
    /\ \A k \in 1 .. Len(calls) :
          /\ calls[k].ledNum = k - 1
          /\ IF k = 1
             THEN /\ calls[k].state \in 0 .. (2 ^ NUM_LEDS - 1)
                  /\ \A i \in Leds : HasBit(calls[k].state, i) <=> e[i] # 0
             ELSE calls[k].state = e[k - 2]

\* C22: the invocations of a poll iteration are the start of, and once it has
\* finished exactly, the seven state-slot invocations (0, mask), (1, e_0), ...,
\* (6, e_5) of the one snapshot the iteration read; an iteration whose
\* enable-state read failed, or that read none, invokes nothing; the shutter
\* slot is never invoked.
C22_BatchOfSevenFromOneSnapshot ==
    /\ \A k \in 1 .. Len(iter.calls) : iter.calls[k].slot = "state"
    /\ iter.states = <<>> => iter.calls = <<>>
    /\ iter.reread = "fail" => iter.states = <<>>
    /\ iter.states # <<>>
       => /\ StartOfSevenInvocations(iter.calls, iter.states[1])
          /\ iter.phase = "complete" => Len(iter.calls) = NUM_LEDS + 1

\* a finished batch of seven whose snapshot the hardware has left behind
\* while the invocations were made
C22_Witness ==
    /\ iter.phase = "complete" /\ iter.reread = "ok"
    /\ Len(iter.calls) = NUM_LEDS + 1
    /\ iter.calls[1].state = 5 /\ iter.calls[3].state = 0 /\ iter.calls[4].state = 1
    /\ hwEnable # iter.states[1]

\* the mask m with bit i given the value v
WithBit(m, i, v) == m - (IF HasBit(m, i) THEN 2 ^ i ELSE 0) + v * (2 ^ i)

\* C23: the aggregate mask is encoded from the cells the per-channel enable
\* flags are kept in: a successful enable write of v to channel i changes the
\* aggregate last-known value in bit i only, to v; an aggregate read that
\* cannot read the hardware presents the mask of the cells as they are and
\* leaves them; an invocation of the state slot leaves them.
C23_SharedLastKnownCells ==
    [][ /\ (last' # last /\ last'.op = "SetEnable" /\ last'.ret = "DEVICE_OK")
           => EncodeLEDStatesInBits(ledStates_')
              = WithBit(EncodeLEDStatesInBits(ledStates_), last'.idx, last'.val[1])
        /\ (last' # last /\ last'.op = "GetState" /\ last'.hub /\ ~last'.conn)
           => /\ last'.shown = <<EncodeLEDStatesInBits(ledStates_)>>
              /\ ledStates_' = ledStates_
        /\ Len(iter'.calls) > Len(iter.calls) => ledStates_' = ledStates_ ]_vars

\* channel 0 was switched off while channel 2 was known to be on: the
\* aggregate last-known value went from 5 to 4
C23_Witness ==
    /\ last.op = "SetEnable" /\ last.ret = "DEVICE_OK"
    /\ last.idx = 0 /\ last.val = <<0>>
    /\ EncodeLEDStatesInBits(ledStates_) = 4

====
